---------------------------- MODULE Spec2Model ----------------------------
(***************************************************************************)
(* A model of camel/toolkits/slack_toolkit.py (class SlackToolkit).        *)
(*                                                                         *)
(* The toolkit keeps no fields of its own.  The state of the model is the  *)
(* process environment (the two credential variables) together with the    *)
(* record of the last method invocation: which method, its arguments, its  *)
(* outcome (a returned value or a raised exception) and the trace of       *)
(* credential resolutions and vendor calls the invocation made.            *)
(*                                                                         *)
(* Encoding of Python values:                                              *)
(*   - text whose length is checked (block texts, action ids, urls) is a   *)
(*     sequence of characters, so len() is Len();                          *)
(*   - identifiers, enum words, dictionary keys, tokens and messages are   *)
(*     TLA+ strings;                                                       *)
(*   - a dict is a function from keys to values (a record);                *)
(*   - an Optional[...] argument is None (the empty tuple) or Some(v), a   *)
(*     one-element tuple, so that None, "" and [] stay distinct;           *)
(*   - a str built by an f-string or str() is the sequence of its pieces.  *)
(* The vendor SDK (slack_sdk) is taken to be importable; its answers are   *)
(* inputs of the actions.                                                  *)
(***************************************************************************)
EXTENDS Integers, Sequences, FiniteSets, TLC

VARIABLES env, op, args, result, trace

vars == <<env, op, args, result, trace>>

-----------------------------------------------------------------------------
(* Python values *)

None == <<>>
Some(v) == <<v>>
IsNone(o) == o = None
Val(o) == o[1]

\* str/list/dict truthiness of an Optional holding a TLA+ string
TruthyStr(o) == ~IsNone(o) /\ Val(o) # ""
\* truthiness of an Optional holding a sequence (text or list)
TruthySeq(o) == ~IsNone(o) /\ Len(Val(o)) > 0
\* truthiness of an Optional holding a dict
TruthyDict(o) == ~IsNone(o) /\ DOMAIN Val(o) # {}

\* the empty dict {}
EmptyDict == [k \in {} |-> k]
\* **({key: o} if cond else {}), o an Optional that cond shows to be given
KeyIf(cond, key, o) == IF cond THEN [k \in {key} |-> Val(o)] ELSE EmptyDict
\* what d.get("type") yields for a dict without the key (None, which equals
\* no type word)
NoType == "None"
\* dict.get(key, default)
Get(d, key, default) == IF key \in DOMAIN d THEN d[key] ELSE default

\* outcomes of a call
Return(v) == [kind |-> "return", value |-> v]
Raise(exc, msg) == [kind |-> "raise", exc |-> exc, msg |-> msg]
NoResult == [kind |-> "none"]

\* pieces of a built string: a literal or interpolated str, str() of an
\* object, json.dumps() of an object
Lit(s) == [lit |-> s]
Repr(v) == [repr |-> v]
JsonDumps(v) == [json |-> v]

\* a text of n characters
Str(n, c) == [i \in 1..n |-> c]

-----------------------------------------------------------------------------
(* Bounds of the model *)

\* texts are sampled at lengths within Margin below and above each limit
Margin == 1
\* the vendor reports at most MaxItems channels or messages in one response
MaxItems == 2

-----------------------------------------------------------------------------
(* make_text_object *)

TextLimit == 3000

\* a length check that forgets the upper limit
TextLengthOk_NoUpperLimit(text) == 1 <= Len(text)

\* 1 <= len(text) <= 3000
TextLengthOk(text) == 1 <= Len(text) /\ Len(text) <= TextLimit

\* emoji kept for any kind of text
EmojiKept_AnyType(text_type, emoji) == ~IsNone(emoji)

\* text_type == "plain_text" and emoji is not None
EmojiKept(text_type, emoji) == text_type = "plain_text" /\ ~IsNone(emoji)

\* verbatim kept for any kind of text
VerbatimKept_AnyType(text_type, verbatim) == ~IsNone(verbatim)

\* text_type == "mrkdwn" and verbatim is not None
VerbatimKept(text_type, verbatim) == text_type = "mrkdwn" /\ ~IsNone(verbatim)

make_text_object(text_type, text, emoji, verbatim) ==
    IF text_type \notin {"plain_text", "mrkdwn"}
    THEN Raise("ValueError",
               "text_type must be either 'plain_text' or 'mrkdwn'.")
    ELSE IF ~TextLengthOk(text)
    THEN Raise("ValueError",
               "The text length must be between 1 and 3000 characters.")
    ELSE Return([type |-> text_type, text |-> text]
                @@ KeyIf(EmojiKept(text_type, emoji), "emoji", emoji)
                @@ KeyIf(VerbatimKept(text_type, verbatim),
                         "verbatim", verbatim))

-----------------------------------------------------------------------------
(* Credential resolution and the vendor client *)

\* os.environ.get(name): None when the variable is unset
EnvironGet(environ, name) == environ[name]

\* an `or` whose right operand wins
PyOr_SecondFirst(a, b) == IF TruthyStr(b) THEN b ELSE a

\* Python's `a or b` on Optional strings
PyOr(a, b) == IF TruthyStr(a) THEN a ELSE b

\* _login_slack(slack_token): the client handle, or KeyError
_login_slack(slack_token, environ) ==
    IF ~TruthyStr(slack_token)
    THEN LET tok == PyOr(EnvironGet(environ, "SLACK_BOT_TOKEN"),
                         EnvironGet(environ, "SLACK_USER_TOKEN"))
         IN  IF ~TruthyStr(tok)
             THEN Raise("KeyError",
                        "SLACK_BOT_TOKEN or SLACK_USER_TOKEN environment variable not set.")
             ELSE Return([token |-> Val(tok)])
    ELSE Return([token |-> Val(slack_token)])

\* events of an invocation's trace: a credential resolution or a vendor call,
\* with what it was given and what it answered
LoginEvent(slack_token, answer) ==
    [kind |-> "login", method |-> "_login_slack",
     kwargs |-> [slack_token |-> slack_token], answer |-> answer]
CallEvent(method, kwargs, answer) ==
    [kind |-> "call", method |-> method, kwargs |-> kwargs, answer |-> answer]

\* what the vendor client answers to one call: a response, or SlackApiError
\* carrying a response whose 'error' is the error code
VendorOk(response) == [kind |-> "return", value |-> response]
VendorError(code) ==
    [kind |-> "raise", exc |-> "SlackApiError", response |-> [error |-> code]]

\* an invocation's outcome together with the events it produced
Outcome(res, tr) == [result |-> res, trace |-> tr]

\* a handler that lets the vendor error through
ExceptSlackApiError_NotCaught(r, prefix) == r

\* a handler for every exception (`except Exception as e`), reporting str(e)
\* for the ones that carry no response
ExceptSlackApiError_CatchAll(r, prefix) ==
    IF r.result.kind = "raise"
    THEN Outcome(Return(<<Lit(prefix),
                          Lit(IF r.result.exc = "SlackApiError"
                              THEN r.result.response["error"]
                              ELSE r.result.msg)>>),
                 r.trace)
    ELSE r

\* `except SlackApiError as e: return f"<prefix>{e.response['error']}"`
\* around a body that ended with `r` (an Outcome whose result may be a raised
\* vendor error or any other exception)
ExceptSlackApiError(r, prefix) ==
    IF r.result.kind = "raise" /\ r.result.exc = "SlackApiError"
    THEN Outcome(Return(<<Lit(prefix), Lit(r.result.response["error"])>>),
                 r.trace)
    ELSE r

-----------------------------------------------------------------------------
(* Operation methods.  `v`, `v1`, `v2` are the vendor's answers to the calls *)
(* the method makes, in order.                                              *)

\* the statements of a try block up to and including its first vendor call:
\* resolve the credential, then call `method`.  The outcome holds the
\* exception raised by either, or the call's response
\* a try block that resolves the credential a second time before its call
LoginThenCall_TwoLogins(environ, method, kwargs, v) ==
    LET login == _login_slack(None, environ)
        t0 == <<LoginEvent(None, login)>>
        t1 == <<LoginEvent(None, login), LoginEvent(None, login),
                CallEvent(method, kwargs, v)>>
    IN  IF login.kind = "raise" THEN Outcome(login, t0) ELSE Outcome(v, t1)

LoginThenCall(environ, method, kwargs, v) ==
    LET login == _login_slack(None, environ)
        t0 == <<LoginEvent(None, login)>>
        t1 == Append(t0, CallEvent(method, kwargs, v))
    IN  IF login.kind = "raise" THEN Outcome(login, t0) ELSE Outcome(v, t1)

\* `return str(response)` after the statements that ended with `called`
ReturnStr(called) ==
    IF called.result.kind = "raise" THEN called
    ELSE Outcome(Return(<<Repr(called.result.value)>>), called.trace)

\* a create_slack_channel that stops after conversations_create
create_slack_channel_NoArchive(name, is_private, environ, v1, v2) ==
    ExceptSlackApiError(
        ReturnStr(LoginThenCall(environ, "conversations_create",
                                [name |-> name, is_private |-> is_private],
                                v1)),
        "Error creating conversation: ")

\* a create_slack_channel that returns the string form of the response to
\* conversations_create, not of the one to conversations_archive
create_slack_channel_ReturnsCreated(name, is_private, environ, v1, v2) ==
    LET created == LoginThenCall(environ, "conversations_create",
                                 [name |-> name, is_private |-> is_private],
                                 v1)
        channel_id == created.result.value["channel"]["id"]
        archived == Outcome(v2, Append(created.trace,
                                       CallEvent("conversations_archive",
                                                 [channel |-> channel_id],
                                                 v2)))
    IN  ExceptSlackApiError(
            IF created.result.kind = "raise" THEN created
            ELSE IF archived.result.kind = "raise" THEN archived
            ELSE Outcome(Return(<<Repr(created.result.value)>>),
                         archived.trace),
            "Error creating conversation: ")

create_slack_channel(name, is_private, environ, v1, v2) ==
    LET created == LoginThenCall(environ, "conversations_create",
                                 [name |-> name, is_private |-> is_private],
                                 v1)
        channel_id == created.result.value["channel"]["id"]
        archived == Outcome(v2, Append(created.trace,
                                       CallEvent("conversations_archive",
                                                 [channel |-> channel_id],
                                                 v2)))
    IN  ExceptSlackApiError(
            IF created.result.kind = "raise" THEN created
            ELSE ReturnStr(archived),
            "Error creating conversation: ")

join_slack_channel(channel_id, environ, v) ==
    ExceptSlackApiError(
        ReturnStr(LoginThenCall(environ, "conversations_join",
                                [channel |-> channel_id], v)),
        "Error creating conversation: ")

leave_slack_channel(channel_id, environ, v) ==
    ExceptSlackApiError(
        ReturnStr(LoginThenCall(environ, "conversations_leave",
                                [channel |-> channel_id], v)),
        "Error creating conversation: ")

\* a filter that passes on every key of the items it keeps
FilterKeys_EveryKey(items, keys) ==
    LET HasAll(item) == keys \subseteq DOMAIN item
    IN  SelectSeq(items, HasAll)

\* [{key: item[key] for key in keys} for item in items
\*  if all(key in item for key in keys)]
FilterKeys(items, keys) ==
    LET HasAll(item) == keys \subseteq DOMAIN item
        kept == SelectSeq(items, HasAll)
    IN  [i \in 1..Len(kept) |-> [key \in keys |-> kept[i][key]]]

\* the keys of a channel without its number of members
ChannelKeys_NoMembers == {"id", "name", "created"}

ChannelKeys == {"id", "name", "created", "num_members"}
MessageKeys == {"user", "text", "ts"}

get_slack_channel_information(environ, v) ==
    LET listed == LoginThenCall(environ, "conversations_list", EmptyDict, v)
        conversations == listed.result.value["channels"]
    IN  ExceptSlackApiError(
            IF listed.result.kind = "raise" THEN listed
            ELSE Outcome(Return(<<JsonDumps(FilterKeys(conversations,
                                                       ChannelKeys))>>),
                         listed.trace),
            "Error creating conversation: ")

get_slack_channel_message(channel_id, environ, v) ==
    LET got == LoginThenCall(environ, "conversations_history",
                             [channel |-> channel_id], v)
        messages == got.result.value["messages"]
    IN  ExceptSlackApiError(
            IF got.result.kind = "raise" THEN got
            ELSE Outcome(Return(<<JsonDumps(FilterKeys(messages,
                                                       MessageKeys))>>),
                         got.trace),
            "Error retrieving messages: ")

\* `if file_path:`
HasFilePath(file_path) == TruthyStr(file_path)

\* a test for a user that takes the empty string for one
HasUser_NotNone(user) == ~IsNone(user)

\* `if user:`
HasUser(user) == TruthyStr(user)

\* keyword arguments of an upload that lack the message
UploadKwargs_NoComment(channel_id, file_path, message) ==
    [channel |-> channel_id, file |-> Val(file_path)]

\* keyword arguments of the files_upload_v2 call
UploadKwargs(channel_id, file_path, message) ==
    [channel |-> channel_id, file |-> Val(file_path),
     initial_comment |-> message]

\* keyword arguments of an ephemeral post that lack `blocks`
EphemeralKwargs_NoBlocks(channel_id, message, user, blocks) ==
    [channel |-> channel_id, text |-> message, user |-> Val(user)]

\* keyword arguments of the chat_postEphemeral call
EphemeralKwargs(channel_id, message, user, blocks) ==
    [channel |-> channel_id, text |-> message, user |-> Val(user),
     blocks |-> blocks]

send_slack_message(message, channel_id, file_path, user, blocks, environ, v) ==
    LET uploaded == LoginThenCall(environ, "files_upload_v2",
                                  UploadKwargs(channel_id, file_path,
                                               message), v)
        posted == IF HasUser(user)
                  THEN LoginThenCall(environ, "chat_postEphemeral",
                                     EphemeralKwargs(channel_id, message,
                                                     user, blocks), v)
                  ELSE LoginThenCall(environ, "chat_postMessage",
                                     [channel |-> channel_id,
                                      text |-> message, blocks |-> blocks], v)
    IN  ExceptSlackApiError(
            IF HasFilePath(file_path)
            THEN IF uploaded.result.kind = "raise" THEN uploaded
                 ELSE Outcome(
                          Return(<<Lit("File sent successfully, got response: "),
                                   Repr(uploaded.result.value)>>),
                          uploaded.trace)
            ELSE IF posted.result.kind = "raise" THEN posted
                 ELSE Outcome(
                          Return(<<Lit("Message: "), Lit(message),
                                   Lit(" sent successfully, got response: "),
                                   Repr(posted.result.value)>>),
                          posted.trace),
            "Error creating conversation: ")

delete_slack_message(time_stamp, channel_id, environ, v) ==
    ExceptSlackApiError(
        ReturnStr(LoginThenCall(environ, "chat_delete",
                                [channel |-> channel_id, ts |-> time_stamp],
                                v)),
        "Error creating conversation: ")

-----------------------------------------------------------------------------
(* Validators of the block-object builders *)

\* a validator that found nothing to reject
Ok == [kind |-> "ok"]

\* the first rejection among the checks, in order
RECURSIVE FirstError(_)
FirstError(checks) ==
    IF checks = <<>> THEN Ok
    ELSE IF Head(checks).kind = "raise" THEN Head(checks)
    ELSE FirstError(Tail(checks))

\* a value that is not a dict (isinstance(x, dict) is False)
NotADict == [k \in {"__class__"} |-> "str"]
IsDict(x) == "__class__" \notin DOMAIN x

_validate_text_object(text_obj, name) ==
    IF ~IsDict(text_obj)
       \/ "type" \notin DOMAIN text_obj
       \/ "text" \notin DOMAIN text_obj
    THEN Raise("ValueError",
               "The " \o name \o " parameter must be a valid text object "
               \o "with 'type' and 'text' keys.")
    ELSE IF text_obj["type"] \notin {"plain_text", "mrkdwn"}
    THEN Raise("ValueError",
               "The " \o name \o " object type must be either 'plain_text' or "
               \o "'mrkdwn'.")
    ELSE Ok

\* one round of the loop over text_validations
ConfirmTextCheck(confirm_obj, name, field_name, expected_type, max_len) ==
    LET text_obj == confirm_obj[field_name]
        structure == _validate_text_object(text_obj, name \o " " \o field_name)
    IN  IF structure.kind = "raise" THEN structure
        ELSE IF text_obj["type"] # expected_type
        THEN Raise("ValueError",
                   "The " \o name \o " " \o field_name
                   \o " text object must be of type '" \o expected_type
                   \o "', not '" \o text_obj["type"] \o "'.")
        ELSE IF Len(Get(text_obj, "text", <<>>)) > max_len
        THEN Raise("ValueError",
                   "The " \o name \o " " \o field_name \o " cannot exceed "
                   \o ToString(max_len) \o " characters.")
        ELSE Ok

\* sep.join(words)
RECURSIVE Join(_, _)
Join(words, sep) ==
    IF words = <<>> THEN ""
    ELSE IF Len(words) = 1 THEN Head(words)
    ELSE Head(words) \o sep \o Join(Tail(words), sep)

\* [key for key in required_keys if key not in d]
MissingKeys(d, required_keys) ==
    LET Missing(key) == key \notin DOMAIN d
    IN  SelectSeq(required_keys, Missing)

ConfirmRequiredKeys == <<"title", "text", "confirm", "deny">>

ConfirmTitleLimit == 100
ConfirmTextLimit == 300
ConfirmButtonLimit == 30

_validate_confirm_object(confirm_obj, name) ==
    IF ~IsDict(confirm_obj)
    THEN Raise("ValueError", "The " \o name \o " parameter must be a dictionary.")
    ELSE IF MissingKeys(confirm_obj, ConfirmRequiredKeys) # <<>>
    THEN Raise("ValueError",
               "The " \o name \o " object must contain the following keys: "
               \o Join(ConfirmRequiredKeys, ", ") \o ". Missing: "
               \o Join(MissingKeys(confirm_obj, ConfirmRequiredKeys), ", "))
    ELSE LET texts == FirstError(<<
                 ConfirmTextCheck(confirm_obj, name, "title", "plain_text",
                                  ConfirmTitleLimit),
                 ConfirmTextCheck(confirm_obj, name, "text", "plain_text",
                                  ConfirmTextLimit),
                 ConfirmTextCheck(confirm_obj, name, "confirm", "plain_text",
                                  ConfirmButtonLimit),
                 ConfirmTextCheck(confirm_obj, name, "deny", "plain_text",
                                  ConfirmButtonLimit)>>)
         IN  IF texts.kind = "raise" THEN texts
             ELSE IF "style" \in DOMAIN confirm_obj
                     /\ confirm_obj["style"] \notin {"primary", "danger"}
             THEN Raise("ValueError",
                        "The " \o name \o " style must be 'primary' or 'danger', "
                        \o "not '" \o confirm_obj["style"] \o "'.")
             ELSE Ok

-----------------------------------------------------------------------------
(* make_button *)

ButtonTextLimit == 75
ActionIdLimit == 255
ButtonValueLimit == 2000
UrlLimit == 3000
AccessibilityLabelLimit == 75

\* one round of the loop over string_validations
StringCheck(param, max_length, field_name) ==
    IF ~IsNone(param) /\ Len(Val(param)) > max_length
    THEN Raise("ValueError",
               field_name \o " cannot exceed " \o ToString(max_length)
               \o " characters.")
    ELSE Ok

\* a length check that lets one character too many through
ButtonTextTooLong_OffByOne(text) ==
    Len(Get(text, "text", <<>>)) > ButtonTextLimit + 1

\* len(text.get("text", "")) > 75
ButtonTextTooLong(text) == Len(Get(text, "text", <<>>)) > ButtonTextLimit

\* a button mapping that never holds the accessibility label
ButtonMapping_NoLabel(text, action_id, value, style, url, confirm, accessibility_label) ==
    [type |-> "button", text |-> text]
    @@ KeyIf(~IsNone(action_id), "action_id", action_id)
    @@ KeyIf(~IsNone(value), "value", value)
    @@ KeyIf(~IsNone(style), "style", style)
    @@ KeyIf(~IsNone(url), "url", url)
    @@ KeyIf(~IsNone(confirm), "confirm", confirm)

\* the mapping make_button returns
ButtonMapping(text, action_id, value, style, url, confirm, accessibility_label) ==
    [type |-> "button", text |-> text]
    @@ KeyIf(~IsNone(action_id), "action_id", action_id)
    @@ KeyIf(~IsNone(value), "value", value)
    @@ KeyIf(~IsNone(style), "style", style)
    @@ KeyIf(~IsNone(url), "url", url)
    @@ KeyIf(~IsNone(confirm), "confirm", confirm)
    @@ KeyIf(~IsNone(accessibility_label), "accessibility_label",
             accessibility_label)

make_button(text, action_id, value, style, url, confirm, accessibility_label) ==
    IF Get(text, "type", NoType) # "plain_text"
    THEN Raise("ValueError",
               "The text object must be of type 'plain_text', not 'mrkdwn'.")
    ELSE IF ButtonTextTooLong(text)
    THEN Raise("ValueError", "Button text cannot exceed 75 characters.")
    ELSE LET strings == FirstError(<<
                 StringCheck(action_id, ActionIdLimit, "action_id"),
                 StringCheck(value, ButtonValueLimit, "Button value"),
                 StringCheck(url, UrlLimit, "Button url"),
                 StringCheck(accessibility_label, AccessibilityLabelLimit,
                             "Button accessibility_label")>>)
             confirmed == IF IsNone(confirm) THEN Ok
                          ELSE _validate_confirm_object(Val(confirm), "confirm")
         IN  IF strings.kind = "raise" THEN strings
             ELSE IF ~IsNone(style) /\ Val(style) \notin {"primary", "danger"}
             THEN Raise("ValueError", "The style must be 'primary' or 'danger'.")
             ELSE IF confirmed.kind = "raise" THEN confirmed
             ELSE Return(ButtonMapping(text, action_id, value, style, url,
                                       confirm, accessibility_label))

-----------------------------------------------------------------------------
(* make_option_group *)

LabelLimit == 75
MaxOptions == 100

\* one round of the loop over enumerate(options); idx counts from 0
OptionCheck(option, idx) ==
    IF ~IsDict(option)
    THEN Raise("TypeError",
               "Option at index " \o ToString(idx) \o " must be a dictionary")
    ELSE IF "text" \notin DOMAIN option \/ "value" \notin DOMAIN option
    THEN Raise("ValueError",
               "Option at index " \o ToString(idx) \o " must contain 'text' and "
               \o "'value' keys.")
    ELSE _validate_text_object(option["text"],
                               "option at index " \o ToString(idx) \o " text")

\* a count check that rejects a list of exactly the limit
TooManyOptions_OffByOne(options) == Len(options) >= MaxOptions

\* len(options) > 100
TooManyOptions(options) == Len(options) > MaxOptions

\* options ranges over lists, so isinstance(options, list) holds
make_option_group(label, options) ==
    LET labelled == _validate_text_object(label, "label")
        each == FirstError([i \in 1..Len(options) |->
                               OptionCheck(options[i], i - 1)])
    IN  IF labelled.kind = "raise" THEN labelled
        ELSE IF label["type"] # "plain_text"
        THEN Raise("ValueError", "Label must be plain_text type")
        ELSE IF Len(Get(label, "text", <<>>)) > LabelLimit
        THEN Raise("ValueError", "Label text cannot exceed 75 characters")
        ELSE IF TooManyOptions(options)
        THEN Raise("ValueError", "Options list cannot exceed 100 items")
        ELSE IF each.kind = "raise" THEN each
        ELSE Return([label |-> label, options |-> options])

-----------------------------------------------------------------------------
(* make_select_menu *)

PlaceholderLimit == 150

\* the block under `if initial_option:`
\* a comparison with the first option only
OptionOffered_FirstOnly(initial_option, options) ==
    /\ "value" \in DOMAIN options[1]
    /\ options[1]["value"] = initial_option["value"]

\* any(opt.get("value") == initial_option.get("value") for opt in options)
OptionOffered(initial_option, options) ==
    \E i \in 1..Len(options) :
        /\ "value" \in DOMAIN options[i]
        /\ options[i]["value"] = initial_option["value"]

InitialOptionCheck(initial_option, options) ==
    LET texted == _validate_text_object(initial_option["text"],
                                        "initial_option text")
    IN  IF ~IsDict(initial_option)
           \/ ~({"text", "value"} \subseteq DOMAIN initial_option)
        THEN Raise("ValueError",
                   "The initial_option must be a dictionary with 'text' "
                   \o "and 'value' keys.")
        ELSE IF texted.kind = "raise" THEN texted
        ELSE IF TruthySeq(options)
                /\ ~OptionOffered(initial_option, Val(options))
        THEN Raise("ValueError",
                   "The initial_option must exist in the provided "
                   \o "options list.")
        ELSE Ok

\* the block under `if placeholder:` (and `if placeholder is not None:`)
PlaceholderCheck(placeholder) ==
    LET structure == _validate_text_object(placeholder, "placeholder")
    IN  IF structure.kind = "raise" THEN structure
        ELSE IF placeholder["type"] # "plain_text"
        THEN Raise("ValueError",
                   "The placeholder must be a plain_text object, not "
                   \o "'mrkdwn'.")
        ELSE IF Len(Get(placeholder, "text", <<>>)) > PlaceholderLimit
        THEN Raise("ValueError",
                   "The placeholder text cannot exceed 150 characters.")
        ELSE Ok

\* a test of focus_on_load for truth, which drops a False
FocusOnLoadKept_Truthy(focus_on_load) ==
    ~IsNone(focus_on_load) /\ Val(focus_on_load)

\* `if focus_on_load is not None`
FocusOnLoadKept(focus_on_load) == ~IsNone(focus_on_load)

make_select_menu(action_id, options, option_groups, initial_option, confirm, focus_on_load, placeholder) ==
    LET initial == IF TruthyDict(initial_option)
                   THEN InitialOptionCheck(Val(initial_option), options)
                   ELSE Ok
        placed == IF TruthyDict(placeholder)
                  THEN PlaceholderCheck(Val(placeholder))
                  ELSE Ok
        confirmed == IF IsNone(confirm) THEN Ok
                     ELSE _validate_confirm_object(Val(confirm), "confirm")
    IN  IF TruthySeq(options) /\ TruthySeq(option_groups)
        THEN Raise("ValueError",
                   "You must provide either 'options' or 'option_groups', "
                   \o "not both.")
        ELSE IF (TruthySeq(options) /\ Len(Val(options)) > MaxOptions)
                \/ (TruthySeq(option_groups)
                    /\ Len(Val(option_groups)) > MaxOptions)
                \/ (TruthySeq(action_id) /\ Len(Val(action_id)) > ActionIdLimit)
        THEN Raise("ValueError",
                   "The options or option_groups list cannot exceed 100 items "
                   \o "or action_id cannot exceed 255 characters.")
        ELSE IF initial.kind = "raise" THEN initial
        ELSE IF placed.kind = "raise" THEN placed
        ELSE IF confirmed.kind = "raise" THEN confirmed
        ELSE Return([type |-> "static_select"]
                    @@ KeyIf(~IsNone(action_id), "action_id", action_id)
                    @@ KeyIf(~IsNone(options), "options", options)
                    @@ KeyIf(~IsNone(option_groups), "option_groups",
                             option_groups)
                    @@ KeyIf(TruthyDict(placeholder), "placeholder", placeholder)
                    @@ KeyIf(TruthyDict(initial_option), "initial_option",
                             initial_option)
                    @@ KeyIf(TruthyDict(confirm), "confirm", confirm)
                    @@ KeyIf(FocusOnLoadKept(focus_on_load), "focus_on_load",
                             focus_on_load))

-----------------------------------------------------------------------------
(* make_confirm_object *)

\* the `max_len` of every field in the list of the length validation
MakeConfirmLimits ==
    [title |-> 100, text |-> 300, confirm_text |-> 30, deny_text |-> 30]

\* one round of the type validation loop; every expected type is
\* 'plain_text', so `wrong_type` is always 'mrkdwn'
ConfirmTypeCheck(field_dict, field_name) ==
    IF Get(field_dict, "type", NoType) # "plain_text"
    THEN Raise("ValueError",
               "The " \o field_name \o " text object must be of type "
               \o "'plain_text', not 'mrkdwn'.")
    ELSE Ok

\* a length test that rejects a text of exactly the limit
ConfirmFieldTooLong_OffByOne(field_dict, max_len) ==
    Len(Get(field_dict, "text", <<>>)) >= max_len

\* len(field_dict.get("text", "")) > max_len
ConfirmFieldTooLong(field_dict, max_len) ==
    Len(Get(field_dict, "text", <<>>)) > max_len

\* one round of the length validation loop
ConfirmLengthCheck(field_name, field_dict) ==
    IF ConfirmFieldTooLong(field_dict, MakeConfirmLimits[field_name])
    THEN Raise("ValueError",
               "The " \o field_name \o " cannot exceed "
               \o ToString(MakeConfirmLimits[field_name]) \o " characters.")
    ELSE Ok

make_confirm_object(title, text, confirm_text, deny_text, style) ==
    LET checked == FirstError(<<
            ConfirmTypeCheck(title, "title"),
            ConfirmTypeCheck(text, "text"),
            ConfirmTypeCheck(confirm_text, "confirm_text"),
            ConfirmTypeCheck(deny_text, "deny_text"),
            ConfirmLengthCheck("title", title),
            ConfirmLengthCheck("text", text),
            ConfirmLengthCheck("confirm_text", confirm_text),
            ConfirmLengthCheck("deny_text", deny_text)>>)
    IN  IF checked.kind = "raise" THEN checked
        ELSE IF ~IsNone(style) /\ Val(style) \notin {"primary", "danger"}
        THEN Raise("ValueError", "The style must be 'primary' or 'danger'.")
        ELSE Return([title |-> title, text |-> text,
                     confirm |-> confirm_text, deny |-> deny_text]
                    @@ KeyIf(~IsNone(style), "style", style))

-----------------------------------------------------------------------------
(* make_plain_text_input *)

InputActionIdLimit == 255
InputPlaceholderLimit == 150
InputLengthLimit == 3000

\* the block under `if placeholder is not None:`
InputPlaceholderCheck(placeholder) ==
    LET structure == _validate_text_object(placeholder, "placeholder")
    IN  IF structure.kind = "raise" THEN structure
        ELSE IF placeholder["type"] # "plain_text"
        THEN Raise("ValueError",
                   "The placeholder must be a plain_text object, not "
                   \o "'mrkdwn'.")
        ELSE IF Len(Get(placeholder, "text", <<>>)) > InputPlaceholderLimit
        THEN Raise("ValueError",
                   "The placeholder text cannot exceed 150 characters.")
        ELSE Ok

\* 0 <= min_length <= 3000
MinLengthInRange(min_length) ==
    0 <= min_length /\ min_length <= InputLengthLimit

\* a range for max_length that starts at 0, as the one for min_length does
MaxLengthInRange_FromZero(max_length) ==
    0 <= max_length /\ max_length <= InputLengthLimit

\* 1 <= max_length <= 3000
MaxLengthInRange(max_length) ==
    1 <= max_length /\ max_length <= InputLengthLimit

make_plain_text_input(action_id, multiline, placeholder, initial_value, min_length, max_length, dispatch_action_config, focus_on_load) ==
    LET placed == IF IsNone(placeholder) THEN Ok
                  ELSE InputPlaceholderCheck(Val(placeholder))
    IN  IF ~IsNone(action_id) /\ Len(Val(action_id)) > InputActionIdLimit
        THEN Raise("ValueError", "The action_id cannot exceed 255 characters.")
        ELSE IF placed.kind = "raise" THEN placed
        ELSE IF ~IsNone(min_length) /\ ~MinLengthInRange(Val(min_length))
        THEN Raise("ValueError",
                   "The min_length must be between 0 and 3000 (inclusive).")
        ELSE IF ~IsNone(max_length) /\ ~MaxLengthInRange(Val(max_length))
        THEN Raise("ValueError",
                   "The max_length must be between 1 and 3000 (inclusive).")
        ELSE Return([type |-> "plain_text_input", multiline |-> multiline,
                     focus_on_load |-> focus_on_load]
                    @@ KeyIf(~IsNone(placeholder), "placeholder", placeholder)
                    @@ KeyIf(~IsNone(action_id), "action_id", action_id)
                    @@ KeyIf(~IsNone(initial_value), "initial_value",
                             initial_value)
                    @@ KeyIf(~IsNone(min_length), "min_length", min_length)
                    @@ KeyIf(~IsNone(max_length), "max_length", max_length)
                    @@ KeyIf(~IsNone(dispatch_action_config),
                             "dispatch_action_config", dispatch_action_config))

-----------------------------------------------------------------------------
(* make_image.  The values of a file object's keys carry their Python type: *)
(* StrValue(s) is the str with the characters s, IntValue(n) the int n.     *)

StrValue(s) == [str |-> s]
IntValue(n) == [int |-> n]
\* isinstance(v, str)
IsStr(v) == "str" \in DOMAIN v
\* type(v).__name__
TypeName(v) == IF IsStr(v) THEN "str" ELSE "int"
\* `not s.strip()`: s is empty or holds blanks only
Blank(s) == \A i \in 1..Len(s) : s[i] = " "

FileUrlLimit == 3000

\* the block under `if "id" in file_obj:`
FileIdCheck(file_id, name) ==
    IF ~IsStr(file_id)
    THEN Raise("ValueError",
               "The " \o name \o " 'id' must be a string, not "
               \o TypeName(file_id) \o ".")
    ELSE IF Blank(file_id.str)
    THEN Raise("ValueError",
               "The " \o name \o " 'id' cannot be empty or whitespace.")
    ELSE Ok

\* the block under `if "url" in file_obj:`
FileUrlCheck(url, name) ==
    IF ~IsStr(url)
    THEN Raise("ValueError",
               "The " \o name \o " 'url' must be a string, not "
               \o TypeName(url) \o ".")
    ELSE IF Blank(url.str)
    THEN Raise("ValueError",
               "The " \o name \o " 'url' cannot be empty or whitespace.")
    ELSE IF Len(url.str) > FileUrlLimit
    THEN Raise("ValueError",
               "The " \o name \o " 'url' cannot exceed 3000 characters.")
    ELSE Ok

\* the members of the set `keys` in the order the process iterates over
\* them; `key_order` lists every key in that order
Listed(keys, key_order) ==
    LET Member(key) == key \in keys
    IN  SelectSeq(key_order, Member)

\* `key_order` is the order in which the running process iterates over sets
\* of keys (it follows the hashes of the strings, which differ from process
\* to process)
_validate_slack_file_object(file_obj, name, key_order) ==
    IF ~IsDict(file_obj)
    THEN Raise("ValueError", "The " \o name \o " parameter must be a dictionary.")
    ELSE IF "id" \notin DOMAIN file_obj /\ "url" \notin DOMAIN file_obj
    THEN Raise("ValueError",
               "The " \o name \o " object must contain at least one of 'id' "
               \o "or 'url' keys.")
    ELSE LET checked == FirstError(<<
                 IF "id" \in DOMAIN file_obj
                 THEN FileIdCheck(file_obj["id"], name) ELSE Ok,
                 IF "url" \in DOMAIN file_obj
                 THEN FileUrlCheck(file_obj["url"], name) ELSE Ok>>)
             unexpected_keys == DOMAIN file_obj \ {"id", "url"}
         IN  IF checked.kind = "raise" THEN checked
             ELSE IF unexpected_keys # {}
             THEN Raise("ValueError",
                        "The " \o name \o " object contains unexpected keys: "
                        \o Join(Listed(unexpected_keys, key_order), ", ")
                        \o ". Valid keys are: "
                        \o Join(Listed({"id", "url"}, key_order), ", ")
                        \o ".")
             ELSE Ok

\* a test of the two arguments for truth, which lets an empty image_url
\* pass along with a file
BothGiven_Truthy(image_url, slack_file) ==
    TruthySeq(image_url) /\ TruthyDict(slack_file)

\* `image_url is not None and slack_file is not None`
BothGiven(image_url, slack_file) == ~IsNone(image_url) /\ ~IsNone(slack_file)

make_image(alt_text, image_url, slack_file, key_order) ==
    LET filed == IF IsNone(slack_file) THEN Ok
                 ELSE _validate_slack_file_object(Val(slack_file),
                                                  "slack_file", key_order)
    IN  IF BothGiven(image_url, slack_file)
        THEN Raise("ValueError",
                   "Only one of image_url or slack_file can be provided, "
                   \o "not both.")
        ELSE IF filed.kind = "raise" THEN filed
        ELSE Return([type |-> "image", alt_text |-> alt_text]
                    @@ KeyIf(TruthySeq(image_url), "image_url", image_url)
                    @@ KeyIf(TruthyDict(slack_file), "slack_file", slack_file))

-----------------------------------------------------------------------------
(* make_date_picker.  A date is a sequence of characters; "U+0664" stands   *)
(* for the one character ARABIC-INDIC DIGIT FOUR.                           *)

DateActionIdLimit == 255
DatePlaceholderLimit == 150

\* the characters `\d` matches in a str pattern: the decimal digits of
\* Unicode, of which the model holds the ten ASCII ones and one other
Digits == {"0", "1", "2", "3", "4", "5", "6", "7", "8", "9", "U+0664"}

\* the text matches \d{4}-\d{2}-\d{2} from its first to its last character
DigitsAndDashes(text) ==
    /\ Len(text) = 10
    /\ \A i \in {1, 2, 3, 4, 6, 7, 9, 10} : text[i] \in Digits
    /\ text[5] = "-"
    /\ text[8] = "-"

\* re.match(r"^\d{4}-\d{2}-\d{2}$", initial_date): `$` matches at the end of
\* the string and also just before a newline that ends the string
ReMatchDate(initial_date) ==
    \/ DigitsAndDashes(initial_date)
    \/ /\ Len(initial_date) = 11
       /\ initial_date[11] = "\n"
       /\ DigitsAndDashes(SubSeq(initial_date, 1, 10))

\* the block under `if placeholder is not None:`
DatePlaceholderCheck(placeholder) ==
    LET structure == _validate_text_object(placeholder, "placeholder")
    IN  IF structure.kind = "raise" THEN structure
        ELSE IF placeholder["type"] # "plain_text"
        THEN Raise("ValueError",
                   "The placeholder must be a plain_text object, not "
                   \o "'mrkdwn'.")
        ELSE IF Len(Get(placeholder, "text", <<>>)) > DatePlaceholderLimit
        THEN Raise("ValueError",
                   "The placeholder text cannot exceed 150 characters.")
        ELSE Ok

make_date_picker(action_id, placeholder, initial_date, confirm, focus_on_load) ==
    LET placed == IF IsNone(placeholder) THEN Ok
                  ELSE DatePlaceholderCheck(Val(placeholder))
        confirmed == IF IsNone(confirm) THEN Ok
                     ELSE _validate_confirm_object(Val(confirm), "confirm")
    IN  IF ~IsNone(action_id) /\ Len(Val(action_id)) > DateActionIdLimit
        THEN Raise("ValueError", "The action_id cannot exceed 255 characters.")
        ELSE IF placed.kind = "raise" THEN placed
        ELSE IF ~IsNone(initial_date) /\ ~ReMatchDate(Val(initial_date))
        THEN Raise("ValueError",
                   "The initial_date must be in YYYY-MM-DD format.")
        ELSE IF confirmed.kind = "raise" THEN confirmed
        ELSE Return([type |-> "datepicker", focus_on_load |-> focus_on_load]
                    @@ KeyIf(~IsNone(action_id), "action_id", action_id)
                    @@ KeyIf(~IsNone(placeholder), "placeholder", placeholder)
                    @@ KeyIf(TruthySeq(initial_date), "initial_date",
                             initial_date)
                    @@ KeyIf(~IsNone(confirm), "confirm", confirm))

-----------------------------------------------------------------------------
(* make_option *)

OptionTextLimit == 75
OptionValueLimit == 150
OptionDescriptionLimit == 75
OptionUrlLimit == 3000

\* one round of the loop over length_validations
LengthCheck(content, max_length, field_name) ==
    IF Len(content) > max_length
    THEN Raise("ValueError",
               field_name \o " cannot exceed " \o ToString(max_length)
               \o " characters.")
    ELSE Ok

\* a test of the description against None, which takes {} for one
DescriptionGiven_NotNone(description) == ~IsNone(description)

\* `if description:`
DescriptionGiven(description) == TruthyDict(description)

make_option(text, value, description, url) ==
    LET texted == _validate_text_object(text, "text")
        described == IF DescriptionGiven(description)
                     THEN _validate_text_object(Val(description), "description")
                     ELSE Ok
        lengths == FirstError(<<
            LengthCheck(Get(text, "text", <<>>), OptionTextLimit,
                        "Option text"),
            LengthCheck(value, OptionValueLimit, "Option value"),
            IF DescriptionGiven(description)
            THEN LengthCheck(Get(Val(description), "text", <<>>),
                             OptionDescriptionLimit, "Option description")
            ELSE Ok,
            IF TruthySeq(url)
            THEN LengthCheck(Val(url), OptionUrlLimit, "Option url")
            ELSE Ok>>)
    IN  IF texted.kind = "raise" THEN texted
        ELSE IF described.kind = "raise" THEN described
        ELSE IF lengths.kind = "raise" THEN lengths
        ELSE Return([text |-> text, value |-> value]
                    @@ KeyIf(DescriptionGiven(description), "description",
                             description)
                    @@ KeyIf(TruthySeq(url), "url", url))

-----------------------------------------------------------------------------
(* Inputs *)

\* lengths within Margin of a limit, and the shortest ones
LensNear(limit) == (limit - Margin)..(limit + Margin)
LensShort == 0..Margin

Characters == {"a", "b"}
OptionalBool == {None, Some(TRUE), Some(FALSE)}
\* an optional string argument: absent, at its limit, above its limit
OptionalStr(limit) == {None, Some(Str(limit, "a")), Some(Str(limit + 1, "a"))}

TextTypes == {"plain_text", "mrkdwn", "markdown"}
TextObject(type, n) == [type |-> type, text |-> Str(n, "a")]
\* text objects with texts near a limit, of both kinds, and malformed ones
TextObjects(limit) ==
    {TextObject(type, n) : type \in {"plain_text", "mrkdwn"},
                           n \in LensNear(limit) \cup {0}}
    \cup {[type |-> "plain_text"], [text |-> Str(limit + 1, "a")],
          TextObject("markdown", limit)}

\* arguments of make_confirm_object: plain texts near the limit, a mrkdwn
\* one, one without 'text' and one without 'type'
ConfirmFields(limit) ==
    {TextObject("plain_text", n) : n \in LensNear(limit)}
    \cup {TextObject("mrkdwn", limit), [type |-> "plain_text"],
          [text |-> Str(1, "a")]}

\* the value of a focus_on_load parameter that the caller leaves out
DefaultFocusOnLoad == Some(FALSE)

\* placeholders of a text input: none, plain ones at and above the limit, a
\* mrkdwn one, one without 'text' and an empty dict
InputPlaceholders ==
    {None, Some(TextObject("plain_text", InputPlaceholderLimit)),
     Some(TextObject("plain_text", InputPlaceholderLimit + 1)),
     Some(TextObject("mrkdwn", 1)), Some([type |-> "plain_text"]),
     Some(EmptyDict)}
\* an optional length: absent, or at and just outside the ends of
\* lowest..3000
OptionalLength(lowest) ==
    {None} \cup {Some(n) : n \in {lowest - 1, lowest, InputLengthLimit,
                                  InputLengthLimit + 1}}

\* file objects: well-formed ones, and one for every way to be rejected
FileObjects ==
    {[id |-> StrValue(Str(1, "a"))],
     [url |-> StrValue(Str(FileUrlLimit, "a"))],
     [id |-> StrValue(Str(1, "a")), url |-> StrValue(Str(1, "a"))],
     NotADict, EmptyDict,
     [id |-> IntValue(7)], [id |-> StrValue(Str(0, "a"))],
     [id |-> StrValue(Str(2, " "))],
     [url |-> IntValue(7)], [url |-> StrValue(Str(1, " "))],
     [url |-> StrValue(Str(FileUrlLimit + 1, "a"))],
     [id |-> StrValue(Str(1, "a")), name |-> StrValue(Str(1, "a"))],
     [name |-> StrValue(Str(1, "a"))],
     [url |-> StrValue(Str(1, "a")), name |-> StrValue(Str(1, "a")),
      size |-> IntValue(7)]}
\* orders in which a process may iterate over the keys
KeyOrders == {<<"id", "url", "name", "size">>, <<"url", "id", "size", "name">>}

\* the date of the repository's test, '2024-01-15'
TestDate == <<"2", "0", "2", "4", "-", "0", "1", "-", "1", "5">>
\* initial dates: the test's, the same followed by one and by two newlines,
\* by a blank and after a letter, with a month of one digit, with slashes,
\* with no dashes, in digits of another script, and the empty string
Dates ==
    {TestDate, TestDate \o <<"\n">>, TestDate \o <<"\n", "\n">>,
     TestDate \o <<" ">>, <<"x">> \o TestDate,
     <<"2", "0", "2", "4", "-", "1", "-", "1", "5">>,
     <<"2", "0", "2", "4", "/", "0", "1", "/", "1", "5">>,
     <<"2", "0", "2", "4", "0", "1", "1", "5">>,
     <<"U+0664", "U+0664", "U+0664", "U+0664", "-", "U+0664", "U+0664", "-",
       "U+0664", "U+0664">>,
     <<>>}

\* descriptions of an option: none, the empty dict, texts at and above the
\* limit, and ones that are no text object
Descriptions ==
    {None, Some(EmptyDict),
     Some(TextObject("mrkdwn", OptionDescriptionLimit)),
     Some(TextObject("plain_text", OptionDescriptionLimit + 1)),
     Some([type |-> "plain_text"]), Some(TextObject("markdown", 1)),
     Some(NotADict)}

ConfirmObject(title_len) ==
    [title |-> TextObject("plain_text", title_len),
     text |-> TextObject("plain_text", ConfirmTextLimit),
     confirm |-> TextObject("plain_text", ConfirmButtonLimit),
     deny |-> TextObject("plain_text", 1)]
OptionalConfirm ==
    {None, Some(ConfirmObject(ConfirmTitleLimit)),
     Some(ConfirmObject(ConfirmTitleLimit + 1))}

Option(n) == [text |-> TextObject("plain_text", 1), value |-> Str(n, "a")]
\* a list of n well-formed options with distinct values
Options(n) == [i \in 1..n |-> Option(i)]
OptionGroup(n) == [label |-> TextObject("plain_text", 1), options |-> Options(n)]
OptionGroups(n) == [i \in 1..n |-> OptionGroup(1)]
\* lists whose element at index 1 (counting from 0) is rejected
BadOptionLists ==
    {<<Option(1), bad>> : bad \in {NotADict,
                                   [text |-> TextObject("plain_text", 1)],
                                   [text |-> TextObject("markdown", 1),
                                    value |-> Str(1, "a")]}}

\* each variable unset, set to the empty string, or set to a token
Environs ==
    {[SLACK_BOT_TOKEN |-> bot, SLACK_USER_TOKEN |-> user] :
         bot \in {None, Some(""), Some("xoxb-bot")},
         user \in {None, Some(""), Some("xoxp-user")}}
NoCredentials == [k \in {"SLACK_BOT_TOKEN", "SLACK_USER_TOKEN"} |-> None]

ChannelIds == {"C1", "C2"}
Messages == {"hello", "bye"}
ErrorCodes == {"invalid_blocks", "channel_not_found"}
VendorErrors == {VendorError(code) : code \in ErrorCodes}
\* answers to a call whose response the toolkit only stringifies
PlainAnswers == {VendorOk([ok |-> TRUE]), VendorOk([ok |-> TRUE, ts |-> "1.5"])}
                \cup VendorErrors

\* lists of at most n items
RECURSIVE ListsUpTo(_, _)
ListsUpTo(items, n) ==
    IF n = 0 THEN {<<>>}
    ELSE ListsUpTo(items, n - 1)
         \cup {Append(l, x) : l \in ListsUpTo(items, n - 1), x \in items}

\* channels as conversations_list reports them: complete, with a key the
\* toolkit does not output, and lacking num_members
Conversations ==
    {[id |-> "C1", name |-> "general", created |-> 1, num_members |-> 5],
     [id |-> "C2", name |-> "random", created |-> 2, num_members |-> 0,
      is_archived |-> FALSE],
     [id |-> "C3", name |-> "dm", created |-> 3]}
\* messages as conversations_history reports them: complete, with a key the
\* toolkit does not output, and lacking user
HistoryMessages ==
    {[user |-> "U1", text |-> "hello", ts |-> "1.5"],
     [user |-> "U2", text |-> "bye", ts |-> "2.5", type |-> "message"],
     [text |-> "joined", ts |-> "3.5", subtype |-> "channel_join"]}
ListAnswers ==
    {VendorOk([ok |-> TRUE, channels |-> l]) :
         l \in ListsUpTo(Conversations, MaxItems)} \cup VendorErrors
HistoryAnswers ==
    {VendorOk([ok |-> TRUE, messages |-> l]) :
         l \in ListsUpTo(HistoryMessages, MaxItems)} \cup VendorErrors

-----------------------------------------------------------------------------
(* The state machine *)

Init ==
    /\ env \in Environs
    /\ op = "none"
    /\ args = EmptyDict
    /\ result = NoResult
    /\ trace = <<>>

\* Methods are synchronous: an invocation starts when no other is under way
\* (op = "none") and ends with the caller taking its outcome (Returned).

MakeTextObject ==
    /\ op = "none"
    /\ \E text_type \in TextTypes, n \in LensShort \cup LensNear(TextLimit),
          c \in Characters, emoji \in OptionalBool, verbatim \in OptionalBool :
        /\ op' = "make_text_object"
        /\ args' = [text_type |-> text_type, text |-> Str(n, c),
                    emoji |-> emoji, verbatim |-> verbatim]
        /\ result' = make_text_object(text_type, Str(n, c), emoji, verbatim)
    /\ trace' = <<>>
    /\ UNCHANGED env

MakeButton ==
    /\ op = "none"
    /\ \E text \in TextObjects(ButtonTextLimit),
          action_id \in OptionalStr(ActionIdLimit),
          value \in OptionalStr(ButtonValueLimit),
          style \in {None, Some("primary"), Some("warning")},
          url \in OptionalStr(UrlLimit),
          confirm \in OptionalConfirm,
          accessibility_label \in OptionalStr(AccessibilityLabelLimit) :
        /\ op' = "make_button"
        /\ args' = [text |-> text, action_id |-> action_id, value |-> value,
                    style |-> style, url |-> url, confirm |-> confirm,
                    accessibility_label |-> accessibility_label]
        /\ result' = make_button(text, action_id, value, style, url, confirm,
                                 accessibility_label)
    /\ trace' = <<>>
    /\ UNCHANGED env

MakeOptionGroup ==
    /\ op = "none"
    /\ \E label \in TextObjects(LabelLimit) \cup {NotADict},
          options \in {Options(n) : n \in LensShort \cup LensNear(MaxOptions)}
                      \cup BadOptionLists :
        /\ op' = "make_option_group"
        /\ args' = [label |-> label, options |-> options]
        /\ result' = make_option_group(label, options)
    /\ trace' = <<>>
    /\ UNCHANGED env

MakeSelectMenu ==
    /\ op = "none"
    /\ \E action_id \in OptionalStr(ActionIdLimit),
          options \in {None} \cup {Some(Options(n)) :
                                       n \in {0, 2, MaxOptions, MaxOptions + 1}},
          option_groups \in {None} \cup {Some(OptionGroups(n)) :
                                             n \in {0, 1, MaxOptions + 1}},
          initial_option \in {None, Some(Option(1)), Some(Option(3)),
                              Some([value |-> Str(1, "a")]), Some(EmptyDict)},
          confirm \in OptionalConfirm,
          focus_on_load \in {DefaultFocusOnLoad, Some(TRUE)},
          placeholder \in {None,
                           Some(TextObject("plain_text", PlaceholderLimit)),
                           Some(TextObject("mrkdwn", 1))} :
        /\ op' = "make_select_menu"
        /\ args' = [action_id |-> action_id, options |-> options,
                    option_groups |-> option_groups,
                    initial_option |-> initial_option, confirm |-> confirm,
                    focus_on_load |-> focus_on_load,
                    placeholder |-> placeholder]
        /\ result' = make_select_menu(action_id, options, option_groups,
                                      initial_option, confirm, focus_on_load,
                                      placeholder)
    /\ trace' = <<>>
    /\ UNCHANGED env

MakeConfirmObject ==
    /\ op = "none"
    /\ \E title \in ConfirmFields(MakeConfirmLimits.title),
          text \in ConfirmFields(MakeConfirmLimits.text),
          confirm_text \in ConfirmFields(MakeConfirmLimits.confirm_text),
          deny_text \in ConfirmFields(MakeConfirmLimits.deny_text),
          style \in {None, Some("primary"), Some("danger"), Some("warning")} :
        /\ op' = "make_confirm_object"
        /\ args' = [title |-> title, text |-> text,
                    confirm_text |-> confirm_text, deny_text |-> deny_text,
                    style |-> style]
        /\ result' = make_confirm_object(title, text, confirm_text, deny_text,
                                         style)
    /\ trace' = <<>>
    /\ UNCHANGED env

MakePlainTextInput ==
    /\ op = "none"
    /\ \E action_id \in OptionalStr(InputActionIdLimit),
          multiline \in BOOLEAN,
          placeholder \in InputPlaceholders,
          initial_value \in {None, Some(Str(1, "a"))},
          min_length \in OptionalLength(0),
          max_length \in OptionalLength(1),
          dispatch_action_config \in
              {None, Some([trigger_actions_on |-> <<"on_enter_pressed">>])},
          focus_on_load \in BOOLEAN :
        /\ op' = "make_plain_text_input"
        /\ args' = [action_id |-> action_id, multiline |-> multiline,
                    placeholder |-> placeholder,
                    initial_value |-> initial_value,
                    min_length |-> min_length, max_length |-> max_length,
                    dispatch_action_config |-> dispatch_action_config,
                    focus_on_load |-> focus_on_load]
        /\ result' = make_plain_text_input(action_id, multiline, placeholder,
                                           initial_value, min_length,
                                           max_length, dispatch_action_config,
                                           focus_on_load)
    /\ trace' = <<>>
    /\ UNCHANGED env

MakeImage ==
    /\ op = "none"
    /\ \E alt_text \in {Str(0, "a"), Str(1, "a")},
          image_url \in {None, Some(Str(0, "a")), Some(Str(1, "a"))},
          slack_file \in {None} \cup {Some(f) : f \in FileObjects},
          key_order \in KeyOrders :
        /\ op' = "make_image"
        /\ args' = [alt_text |-> alt_text, image_url |-> image_url,
                    slack_file |-> slack_file]
        /\ result' = make_image(alt_text, image_url, slack_file, key_order)
    /\ trace' = <<>>
    /\ UNCHANGED env

MakeDatePicker ==
    /\ op = "none"
    /\ \E action_id \in OptionalStr(DateActionIdLimit),
          placeholder \in {None,
                           Some(TextObject("plain_text", DatePlaceholderLimit)),
                           Some(TextObject("plain_text",
                                           DatePlaceholderLimit + 1)),
                           Some(TextObject("mrkdwn", 1))},
          initial_date \in {None} \cup {Some(d) : d \in Dates},
          confirm \in OptionalConfirm,
          focus_on_load \in BOOLEAN :
        /\ op' = "make_date_picker"
        /\ args' = [action_id |-> action_id, placeholder |-> placeholder,
                    initial_date |-> initial_date, confirm |-> confirm,
                    focus_on_load |-> focus_on_load]
        /\ result' = make_date_picker(action_id, placeholder, initial_date,
                                      confirm, focus_on_load)
    /\ trace' = <<>>
    /\ UNCHANGED env

MakeOption ==
    /\ op = "none"
    /\ \E text \in TextObjects(OptionTextLimit) \cup {NotADict},
          value \in {Str(OptionValueLimit, "a"),
                     Str(OptionValueLimit + 1, "a")},
          description \in Descriptions,
          url \in OptionalStr(OptionUrlLimit) \cup {Some(Str(0, "a"))} :
        /\ op' = "make_option"
        /\ args' = [text |-> text, value |-> value,
                    description |-> description, url |-> url]
        /\ result' = make_option(text, value, description, url)
    /\ trace' = <<>>
    /\ UNCHANGED env

\* _login_slack called directly
LoginSlack ==
    /\ op = "none"
    /\ \E slack_token \in {None, Some(""), Some("xoxp-arg")} :
        /\ op' = "_login_slack"
        /\ args' = [slack_token |-> slack_token]
        /\ result' = _login_slack(slack_token, env)
        /\ trace' = <<LoginEvent(slack_token, _login_slack(slack_token, env))>>
    /\ UNCHANGED env

CreateSlackChannel ==
    /\ op = "none"
    /\ \E name \in {"general", "random"}, is_private \in BOOLEAN,
          v1 \in {VendorOk([channel |-> [id |-> id]]) : id \in ChannelIds}
                 \cup VendorErrors,
          v2 \in PlainAnswers :
        LET r == create_slack_channel(name, is_private, env, v1, v2)
        IN  /\ op' = "create_slack_channel"
            /\ args' = [name |-> name, is_private |-> is_private]
            /\ result' = r.result
            /\ trace' = r.trace
    /\ UNCHANGED env

JoinSlackChannel ==
    /\ op = "none"
    /\ \E channel_id \in ChannelIds, v \in PlainAnswers :
        LET r == join_slack_channel(channel_id, env, v)
        IN  /\ op' = "join_slack_channel"
            /\ args' = [channel_id |-> channel_id]
            /\ result' = r.result
            /\ trace' = r.trace
    /\ UNCHANGED env

LeaveSlackChannel ==
    /\ op = "none"
    /\ \E channel_id \in ChannelIds, v \in PlainAnswers :
        LET r == leave_slack_channel(channel_id, env, v)
        IN  /\ op' = "leave_slack_channel"
            /\ args' = [channel_id |-> channel_id]
            /\ result' = r.result
            /\ trace' = r.trace
    /\ UNCHANGED env

GetSlackChannelInformation ==
    /\ op = "none"
    /\ \E v \in ListAnswers :
        LET r == get_slack_channel_information(env, v)
        IN  /\ op' = "get_slack_channel_information"
            /\ args' = EmptyDict
            /\ result' = r.result
            /\ trace' = r.trace
    /\ UNCHANGED env

GetSlackChannelMessage ==
    /\ op = "none"
    /\ \E channel_id \in ChannelIds, v \in HistoryAnswers :
        LET r == get_slack_channel_message(channel_id, env, v)
        IN  /\ op' = "get_slack_channel_message"
            /\ args' = [channel_id |-> channel_id]
            /\ result' = r.result
            /\ trace' = r.trace
    /\ UNCHANGED env

SendSlackMessage ==
    /\ op = "none"
    /\ \E message \in Messages, channel_id \in ChannelIds,
          file_path \in {None, Some(""), Some("/tmp/report.txt")},
          user \in {None, Some(""), Some("U1")},
          blocks \in {None, Some(<<>>), Some(<<[type |-> "divider"]>>)},
          v \in PlainAnswers :
        LET r == send_slack_message(message, channel_id, file_path, user,
                                    blocks, env, v)
        IN  /\ op' = "send_slack_message"
            /\ args' = [message |-> message, channel_id |-> channel_id,
                        file_path |-> file_path, user |-> user,
                        blocks |-> blocks]
            /\ result' = r.result
            /\ trace' = r.trace
    /\ UNCHANGED env

DeleteSlackMessage ==
    /\ op = "none"
    /\ \E time_stamp \in {"1.5", "2.5"}, channel_id \in ChannelIds,
          v \in PlainAnswers :
        LET r == delete_slack_message(time_stamp, channel_id, env, v)
        IN  /\ op' = "delete_slack_message"
            /\ args' = [time_stamp |-> time_stamp, channel_id |-> channel_id]
            /\ result' = r.result
            /\ trace' = r.trace
    /\ UNCHANGED env

\* the caller takes the outcome of the invocation
Returned ==
    /\ op # "none"
    /\ op' = "none"
    /\ args' = EmptyDict
    /\ result' = NoResult
    /\ trace' = <<>>
    /\ UNCHANGED env

NextOps ==
    \/ LoginSlack
    \/ CreateSlackChannel
    \/ JoinSlackChannel
    \/ LeaveSlackChannel
    \/ GetSlackChannelInformation
    \/ GetSlackChannelMessage
    \/ SendSlackMessage
    \/ DeleteSlackMessage
    \/ Returned

NextBuilders ==
    \/ MakeTextObject
    \/ MakeButton
    \/ MakeOptionGroup
    \/ MakeSelectMenu
    \/ MakeConfirmObject
    \/ MakePlainTextInput
    \/ MakeImage
    \/ MakeDatePicker
    \/ MakeOption
    \/ Returned

Next == NextOps \/ NextBuilders

\* the toolkit as a whole
Spec == Init /\ [][Next]_vars

\* the operation methods, under every environment
SpecOps == Init /\ [][NextOps]_vars

\* the builders; they never read the environment, which is held at the one
\* where any credential resolution would fail
InitBuilders == Init /\ env = NoCredentials
SpecBuilders == InitBuilders /\ [][NextBuilders]_vars

-----------------------------------------------------------------------------
(* Properties *)

\* the operation methods
Operations ==
    {"create_slack_channel", "join_slack_channel", "leave_slack_channel",
     "get_slack_channel_information", "get_slack_channel_message",
     "send_slack_message", "delete_slack_message"}

\* the vendor calls of the last invocation, in order
IsCall(event) == event.kind = "call"
Calls == SelectSeq(trace, IsCall)

\* the last invocation resolved a credential
CredentialResolved ==
    /\ trace # <<>>
    /\ trace[1].kind = "login"
    /\ trace[1].answer.kind = "return"

\* the last invocation ended with ValueError
RejectedAsInvalid == result.kind = "raise" /\ result.exc = "ValueError"

\* C1: make_text_object rejects with a validation error every text shorter
\* than 1 or longer than 3000 characters, and for a text of 1..3000
\* characters with type 'plain_text' or 'mrkdwn' it returns a text object
\* whose 'type' and 'text' are the given arguments.
C1_TextLengthChecked ==
    op = "make_text_object" =>
        /\ (Len(args.text) < 1 \/ Len(args.text) > 3000) => RejectedAsInvalid
        /\ (/\ Len(args.text) >= 1
            /\ Len(args.text) <= 3000
            /\ args.text_type \in {"plain_text", "mrkdwn"})
           => /\ result.kind = "return"
              /\ result.value["type"] = args.text_type
              /\ result.value["text"] = args.text

\* a text of 3001 characters of a valid type was rejected
C1_Witness ==
    /\ op = "make_text_object"
    /\ args.text_type = "mrkdwn"
    /\ Len(args.text) = 3001
    /\ RejectedAsInvalid

\* C2: in every text object make_text_object returns, 'emoji' is present
\* only when the type is 'plain_text' and 'verbatim' only when it is
\* 'mrkdwn', whatever text_type, emoji and verbatim were given.
C2_EmojiVerbatimByType ==
    (op = "make_text_object" /\ result.kind = "return") =>
        /\ "emoji" \in DOMAIN result.value
           => result.value["type"] = "plain_text"
        /\ "verbatim" \in DOMAIN result.value
           => result.value["type"] = "mrkdwn"

\* a mrkdwn text given with both emoji and verbatim was returned
C2_Witness ==
    /\ op = "make_text_object"
    /\ args.text_type = "mrkdwn"
    /\ args.emoji = Some(TRUE)
    /\ args.verbatim = Some(FALSE)
    /\ result.kind = "return"
    /\ DOMAIN result.value = {"type", "text", "verbatim"}

\* C3: make_button rejects with a validation error every call whose text
\* object's text is longer than 75 characters, whatever the other arguments,
\* and returns no button then.
C3_ButtonTextRejected ==
    (/\ op = "make_button"
     /\ "text" \in DOMAIN args.text
     /\ Len(args.text["text"]) > 75)
    => RejectedAsInvalid

\* a plain_text label of 76 characters, every other argument valid, was
\* rejected
C3_Witness ==
    /\ op = "make_button"
    /\ args.text = [type |-> "plain_text", text |-> Str(76, "a")]
    /\ args.action_id # None /\ Len(Val(args.action_id)) = 255
    /\ args.style = Some("primary")
    /\ args.url = None
    /\ args.accessibility_label = None
    /\ args.confirm # None /\ Len(Val(args.confirm)["title"]["text"]) = 100
    /\ RejectedAsInvalid

\* C4: make_select_menu rejects with a validation error every call in which
\* both options and option_groups are given (not None), an empty list
\* included.
C4_BothListsRejected ==
    (/\ op = "make_select_menu"
     /\ ~IsNone(args.options)
     /\ ~IsNone(args.option_groups))
    => RejectedAsInvalid

\* well-formed options: dicts with a 'value' and a valid text object as 'text'
WellFormedOptions(options) ==
    \A i \in 1..Len(options) :
        /\ IsDict(options[i])
        /\ {"text", "value"} \subseteq DOMAIN options[i]
        /\ IsDict(options[i]["text"])
        /\ {"type", "text"} \subseteq DOMAIN options[i]["text"]
        /\ options[i]["text"]["type"] \in {"plain_text", "mrkdwn"}

\* C5: make_option_group rejects every label whose type is not 'plain_text'
\* and every options list of more than 100 entries; 100 well-formed options
\* with a plain_text label of at most 75 characters are accepted and
\* returned as {'label': label, 'options': options}.
C5_OptionGroupLimits ==
    op = "make_option_group" =>
        /\ Get(args.label, "type", NoType) # "plain_text" => RejectedAsInvalid
        /\ Len(args.options) > 100 => RejectedAsInvalid
        /\ (/\ Len(args.options) = 100
            /\ WellFormedOptions(args.options)
            /\ Get(args.label, "type", NoType) = "plain_text"
            /\ "text" \in DOMAIN args.label
            /\ Len(args.label["text"]) <= 75)
           => result = Return([label |-> args.label, options |-> args.options])

\* a group of exactly 100 options under a 75-character label was returned
C5_Witness ==
    /\ op = "make_option_group"
    /\ Len(args.options) = 100
    /\ "text" \in DOMAIN args.label
    /\ Len(args.label["text"]) = 75
    /\ result.kind = "return"

\* C6: send_slack_message called with no file_path and no user (and a
\* credential that resolves) makes exactly one vendor call,
\* chat_postMessage(channel=channel_id, text=message, blocks=blocks), no
\* chat_postEphemeral or files_upload_v2 call, and on success returns
\* 'Message: <message> sent successfully, got response: <response>'.
C6_PublicMessage ==
    (/\ op = "send_slack_message"
     /\ ~TruthyStr(args.file_path)
     /\ ~TruthyStr(args.user)
     /\ CredentialResolved)
    => /\ Len(Calls) = 1
       /\ Calls[1].method = "chat_postMessage"
       /\ Calls[1].kwargs = [channel |-> args.channel_id,
                             text |-> args.message, blocks |-> args.blocks]
       /\ Calls[1].answer.kind = "return"
          => result = Return(<<Lit("Message: "), Lit(args.message),
                               Lit(" sent successfully, got response: "),
                               Repr(Calls[1].answer.value)>>)

\* a message with blocks, an empty file_path and an empty user was posted
C6_Witness ==
    /\ op = "send_slack_message"
    /\ args.file_path = Some("")
    /\ args.user = Some("")
    /\ args.blocks # None /\ Len(Val(args.blocks)) = 1
    /\ Len(Calls) = 1
    /\ Calls[1].answer.kind = "return"
    /\ result.kind = "return"

C8_CredentialOrder ==
    op = "_login_slack" =>
        LET given == args.slack_token
            bot == env["SLACK_BOT_TOKEN"]
            user == env["SLACK_USER_TOKEN"]
        IN  /\ TruthyStr(given) => result = Return([token |-> Val(given)])
            /\ (~TruthyStr(given) /\ TruthyStr(bot))
               => result = Return([token |-> Val(bot)])
            /\ (~TruthyStr(given) /\ ~TruthyStr(bot) /\ TruthyStr(user))
               => result = Return([token |-> Val(user)])
            /\ (result.kind = "raise")
               <=> (~TruthyStr(given) /\ ~TruthyStr(bot) /\ ~TruthyStr(user))
            /\ result.kind = "raise" => result.exc = "KeyError"

\* with an empty argument and both variables set, the bot token was used
C8_Witness ==
    /\ op = "_login_slack"
    /\ args.slack_token = Some("")
    /\ env["SLACK_BOT_TOKEN"] = Some("xoxb-bot")
    /\ env["SLACK_USER_TOKEN"] = Some("xoxp-user")
    /\ result = Return([token |-> "xoxb-bot"])

\* no credential can be resolved from the environment
NoCredential ==
    ~TruthyStr(env["SLACK_BOT_TOKEN"]) /\ ~TruthyStr(env["SLACK_USER_TOKEN"])

\* C9: when no credential can be resolved, every operation method raises
\* the configuration error to its caller (not an error string) and makes no
\* vendor call.
C9_NoCredentialRaises ==
    (op \in Operations /\ NoCredential)
    => /\ result.kind = "raise"
       /\ result.exc = "KeyError"
       /\ Calls = <<>>

\* send_slack_message was called with both variables set to the empty string
C9_Witness ==
    /\ op = "send_slack_message"
    /\ env["SLACK_BOT_TOKEN"] = Some("")
    /\ env["SLACK_USER_TOKEN"] = Some("")
    /\ result.kind = "raise"

C12_EphemeralMessage ==
    (/\ op = "send_slack_message"
     /\ CredentialResolved
     /\ TruthyStr(args.user)
     /\ ~TruthyStr(args.file_path))
    => /\ Len(Calls) = 1
       /\ Calls[1].method = "chat_postEphemeral"
       /\ Calls[1].kwargs = [channel |-> args.channel_id,
                             text |-> args.message,
                             user |-> Val(args.user),
                             blocks |-> args.blocks]
       /\ Calls[1].answer.kind = "return"
          => /\ result.kind = "return"
             /\ Len(result.value) >= 3
             /\ SubSeq(result.value, 1, 3)
                    = <<Lit("Message: "), Lit(args.message),
                        Lit(" sent successfully, got response: ")>>

\* a message with blocks was sent to user U1, the file path being the empty
\* string
C12_Witness ==
    /\ op = "send_slack_message"
    /\ args.user = Some("U1")
    /\ args.file_path = Some("")
    /\ args.blocks = Some(<<[type |-> "divider"]>>)
    /\ Len(Calls) = 1
    /\ result.kind = "return"

\* the message make_select_menu raises for a call whose only fault is an
\* options list of 101 items, and for one whose only fault is an
\* option_groups list of 101 items
TooManyOptionsMessage ==
    make_select_menu(None, Some(Options(MaxOptions + 1)), None, None, None,
                     Some(FALSE), None).msg
TooManyGroupsMessage ==
    make_select_menu(None, None, Some(OptionGroups(MaxOptions + 1)), None,
                     None, Some(FALSE), None).msg

\* C14: whenever a builder rejects its input, the validation error
\* identifies the single offending field and the constraint violated; in
\* particular the error make_select_menu raises for an action_id longer than
\* 255 characters differs from the one it raises for an options list of more
\* than 100 items and from the one for an option_groups list of more than
\* 100 items.
C14_SelectMenuErrorsDistinct ==
    (/\ op = "make_select_menu"
     /\ TruthySeq(args.action_id)
     /\ Len(Val(args.action_id)) > 255
     /\ ~(TruthySeq(args.options) /\ TruthySeq(args.option_groups))
     /\ ~(TruthySeq(args.options) /\ Len(Val(args.options)) > 100)
     /\ ~(TruthySeq(args.option_groups)
          /\ Len(Val(args.option_groups)) > 100))
    => /\ RejectedAsInvalid
       /\ result.msg # TooManyOptionsMessage
       /\ result.msg # TooManyGroupsMessage
       /\ TooManyOptionsMessage # TooManyGroupsMessage

\* the length of the text of a text object, 0 when it has none
TextLen(text_obj) == Len(Get(text_obj, "text", <<>>))

\* C15: make_confirm_object rejects with a validation error a title longer
\* than 100 characters, a text longer than 300, a confirm_text longer than
\* 30, a deny_text longer than 30, any of the four text objects whose type
\* is not 'plain_text', and any style other than None, 'primary' and
\* 'danger'; otherwise it returns a mapping with the keys title, text,
\* confirm and deny holding the arguments unchanged, plus 'style' exactly
\* when a style is given.
C15_ConfirmObjectBuilt ==
    op = "make_confirm_object" =>
        IF \/ TextLen(args.title) > 100
           \/ TextLen(args.text) > 300
           \/ TextLen(args.confirm_text) > 30
           \/ TextLen(args.deny_text) > 30
           \/ \E f \in {"title", "text", "confirm_text", "deny_text"} :
                  Get(args[f], "type", NoType) # "plain_text"
           \/ args.style \notin {None, Some("primary"), Some("danger")}
        THEN RejectedAsInvalid
        ELSE /\ result.kind = "return"
             /\ {"title", "text", "confirm", "deny"}
                    \subseteq DOMAIN result.value
             /\ DOMAIN result.value
                    \subseteq {"title", "text", "confirm", "deny", "style"}
             /\ result.value["title"] = args.title
             /\ result.value["text"] = args.text
             /\ result.value["confirm"] = args.confirm_text
             /\ result.value["deny"] = args.deny_text
             /\ "style" \in DOMAIN result.value <=> args.style # None
             /\ args.style # None => result.value["style"] = Val(args.style)

\* a confirm object with every text exactly at its limit and a style was
\* built
C15_Witness ==
    /\ op = "make_confirm_object"
    /\ TextLen(args.title) = 100
    /\ TextLen(args.text) = 300
    /\ TextLen(args.confirm_text) = 30
    /\ TextLen(args.deny_text) = 30
    /\ args.style = Some("danger")
    /\ result.kind = "return"
    /\ result.value["style"] = "danger"

\* a text object whose text is present and 1..3000 characters long
TextPresent(text_obj) ==
    /\ "text" \in DOMAIN text_obj
    /\ Len(text_obj["text"]) >= 1
    /\ Len(text_obj["text"]) <= 3000

\* the text objects of a confirm object
ConfirmTextsPresent(confirm_obj) ==
    \A k \in {"title", "text", "confirm", "deny"} : TextPresent(confirm_obj[k])

\* the text objects of a list of options
OptionTextsPresent(options) ==
    \A i \in 1..Len(options) :
        /\ TextPresent(options[i]["text"])
        /\ "description" \in DOMAIN options[i]
           => TextPresent(options[i]["description"])

\* the text objects of the mapping `value` that a builder returned hold a
\* text of 1..3000 characters
ContainedTextsPresent(value) ==
    /\ op = "make_text_object" => TextPresent(value)
    /\ op = "make_button" => TextPresent(value["text"])
    /\ op = "make_option_group"
       => TextPresent(value["label"]) /\ OptionTextsPresent(value["options"])
    /\ op = "make_confirm_object" => ConfirmTextsPresent(value)
    /\ (op \in {"make_select_menu", "make_plain_text_input",
                "make_date_picker"}
        /\ "placeholder" \in DOMAIN value)
       => TextPresent(value["placeholder"])
    /\ op = "make_option"
       => /\ TextPresent(value["text"])
          /\ "description" \in DOMAIN value
             => TextPresent(value["description"])
    /\ (op = "make_select_menu" /\ "options" \in DOMAIN value)
       => OptionTextsPresent(value["options"])
    /\ (op \in {"make_select_menu", "make_button", "make_date_picker"}
        /\ "confirm" \in DOMAIN value)
       => ConfirmTextsPresent(value["confirm"])

Builders ==
    {"make_text_object", "make_button", "make_option_group",
     "make_select_menu", "make_confirm_object", "make_plain_text_input",
     "make_image", "make_date_picker", "make_option"}

\* C16: every text object contained in a mapping returned by a builder
\* (the button text, option texts and descriptions, the option group
\* label, the placeholders, the confirm title, text, confirm and deny) has
\* a text of 1..3000 characters; no builder accepts a text object whose
\* text is empty or missing.
C16_ContainedTextsPresent ==
    (op \in Builders /\ result.kind = "return")
    => ContainedTextsPresent(result.value)

\* a confirm object as _validate_confirm_object's callers document it: the
\* four plain texts within their limits, and a style that is 'primary' or
\* 'danger' when there is one
WellFormedConfirm(confirm_obj) ==
    /\ {"title", "text", "confirm", "deny"} \subseteq DOMAIN confirm_obj
    /\ \A k \in {"title", "text", "confirm", "deny"} :
           /\ DOMAIN confirm_obj[k] = {"type", "text"}
           /\ confirm_obj[k]["type"] = "plain_text"
    /\ Len(confirm_obj["title"]["text"]) <= 100
    /\ Len(confirm_obj["text"]["text"]) <= 300
    /\ Len(confirm_obj["confirm"]["text"]) <= 30
    /\ Len(confirm_obj["deny"]["text"]) <= 30
    /\ "style" \in DOMAIN confirm_obj
       => confirm_obj["style"] \in {"primary", "danger"}

\* an optional string argument within its limit
WithinLimit(o, limit) == o = None \/ Len(Val(o)) <= limit

\* the arguments of the last make_button call are valid
ValidButtonArgs ==
    /\ Get(args.text, "type", NoType) = "plain_text"
    /\ TextLen(args.text) <= 75
    /\ WithinLimit(args.action_id, 255)
    /\ WithinLimit(args.value, 2000)
    /\ WithinLimit(args.url, 3000)
    /\ WithinLimit(args.accessibility_label, 75)
    /\ args.style \in {None, Some("primary"), Some("danger")}
    /\ args.confirm = None \/ WellFormedConfirm(Val(args.confirm))

ButtonOptionalKeys ==
    {"action_id", "value", "style", "url", "confirm", "accessibility_label"}

\* C17: make_button with valid arguments returns a mapping whose 'type' is
\* 'button' and whose 'text' is the given text object, and which contains,
\* among action_id, value, style, url, confirm and accessibility_label,
\* exactly those keys whose argument is not None, each holding the argument
\* unchanged.
C17_ButtonBuilt ==
    op = "make_button" =>
        /\ ValidButtonArgs <=> result.kind = "return"
        /\ result.kind = "return"
           => /\ DOMAIN result.value \subseteq
                     {"type", "text"} \cup ButtonOptionalKeys
              /\ result.value["type"] = "button"
              /\ result.value["text"] = args.text
              /\ \A k \in ButtonOptionalKeys :
                     IF args[k] = None THEN k \notin DOMAIN result.value
                     ELSE /\ k \in DOMAIN result.value
                          /\ result.value[k] = Val(args[k])

\* a button was built from six optional arguments, each at its limit
C17_Witness ==
    /\ op = "make_button"
    /\ result.kind = "return"
    /\ TextLen(args.text) = 75
    /\ \A k \in ButtonOptionalKeys : args[k] # None
    /\ DOMAIN result.value = {"type", "text"} \cup ButtonOptionalKeys
    /\ Len(result.value["accessibility_label"]) = 75

\* arguments of the last make_select_menu call that are valid: at most one
\* list, neither list nor action_id over its limit, no initial option, a
\* plain_text placeholder of at most 150 characters or none, a well-formed
\* confirm object or none
ValidSelectMenuArgs ==
    /\ ~(TruthySeq(args.options) /\ TruthySeq(args.option_groups))
    /\ WithinLimit(args.options, 100)
    /\ WithinLimit(args.option_groups, 100)
    /\ WithinLimit(args.action_id, 255)
    /\ args.initial_option = None
    /\ \/ args.placeholder = None
       \/ /\ DOMAIN Val(args.placeholder) = {"type", "text"}
          /\ Val(args.placeholder)["type"] = "plain_text"
          /\ TextLen(Val(args.placeholder)) <= 150
    /\ args.confirm = None \/ WellFormedConfirm(Val(args.confirm))

\* C18: make_select_menu with valid arguments returns a mapping whose 'type'
\* is 'static_select', which always contains 'focus_on_load' (False when the
\* caller leaves it out), contains 'action_id' and 'options' unchanged when
\* they are given, and contains 'placeholder' only when a placeholder is
\* given.
C18_SelectMenuBuilt ==
    op = "make_select_menu" =>
        /\ ValidSelectMenuArgs => result.kind = "return"
        /\ result.kind = "return"
           => /\ result.value["type"] = "static_select"
              /\ "focus_on_load" \in DOMAIN result.value
              /\ result.value["focus_on_load"] = Val(args.focus_on_load)
              /\ args.action_id # None
                 => /\ "action_id" \in DOMAIN result.value
                    /\ result.value["action_id"] = Val(args.action_id)
              /\ args.options # None
                 => /\ "options" \in DOMAIN result.value
                    /\ result.value["options"] = Val(args.options)
              /\ "placeholder" \in DOMAIN result.value
                 => /\ args.placeholder # None
                    /\ result.value["placeholder"] = Val(args.placeholder)

\* a menu of 100 options with an action_id and a placeholder was built, the
\* caller leaving focus_on_load out
C18_Witness ==
    /\ op = "make_select_menu"
    /\ result.kind = "return"
    /\ args.focus_on_load = DefaultFocusOnLoad
    /\ args.action_id # None
    /\ args.options # None
    /\ Len(Val(args.options)) = 100
    /\ args.placeholder # None
    /\ result.value["focus_on_load"] = FALSE
    /\ "placeholder" \in DOMAIN result.value

\* a text object of type 'plain_text'
PlainTextObject(text_obj) ==
    /\ {"type", "text"} \subseteq DOMAIN text_obj
    /\ text_obj["type"] = "plain_text"

InputOptionalKeys ==
    {"placeholder", "action_id", "initial_value", "min_length", "max_length",
     "dispatch_action_config"}

\* C19: make_plain_text_input rejects with a validation error an action_id
\* longer than 255 characters, a placeholder that is not a plain_text object
\* or whose text is longer than 150 characters, a min_length outside 0..3000
\* and a max_length outside 1..3000; otherwise the result has 'type'
\* 'plain_text_input', always contains 'multiline' and 'focus_on_load', and
\* contains each other optional field exactly when its argument is not None.
C19_PlainTextInputBuilt ==
    op = "make_plain_text_input" =>
        IF \/ args.action_id # None /\ Len(Val(args.action_id)) > 255
           \/ /\ args.placeholder # None
              /\ \/ ~PlainTextObject(Val(args.placeholder))
                 \/ TextLen(Val(args.placeholder)) > 150
           \/ args.min_length # None /\ Val(args.min_length) \notin 0..3000
           \/ args.max_length # None /\ Val(args.max_length) \notin 1..3000
        THEN RejectedAsInvalid
        ELSE /\ result.kind = "return"
             /\ DOMAIN result.value \subseteq
                    {"type", "multiline", "focus_on_load"}
                    \cup InputOptionalKeys
             /\ result.value["type"] = "plain_text_input"
             /\ result.value["multiline"] = args.multiline
             /\ result.value["focus_on_load"] = args.focus_on_load
             /\ \A k \in InputOptionalKeys :
                    IF args[k] = None THEN k \notin DOMAIN result.value
                    ELSE /\ k \in DOMAIN result.value
                         /\ result.value[k] = Val(args[k])

\* an input was built with min_length 0 and max_length 1, the ends of the
\* two ranges, and a placeholder of 150 characters
C19_Witness ==
    /\ op = "make_plain_text_input"
    /\ args.min_length = Some(0)
    /\ args.max_length = Some(1)
    /\ args.placeholder # None
    /\ result.kind = "return"
    /\ result.value["min_length"] = 0
    /\ result.value["max_length"] = 1
    /\ TextLen(result.value["placeholder"]) = 150

\* a valid file object: a dict with an 'id' or a 'url' and no other key,
\* whose 'id' is a str that is not blank and whose 'url' is a str of at most
\* 3000 characters that is not blank
ValidFileObject(file_obj) ==
    /\ IsDict(file_obj)
    /\ DOMAIN file_obj \in {{"id"}, {"url"}, {"id", "url"}}
    /\ \A k \in DOMAIN file_obj :
           /\ DOMAIN file_obj[k] = {"str"}
           /\ \E i \in 1..Len(file_obj[k].str) : file_obj[k].str[i] # " "
    /\ "url" \in DOMAIN file_obj => Len(file_obj["url"].str) <= 3000

\* C20: make_image rejects with a validation error every call in which both
\* image_url and slack_file are given (not None) and every slack_file that
\* is not a valid file object; every image it returns has 'type' 'image',
\* the given alt_text, and at most one of the keys 'image_url' and
\* 'slack_file'.
C20_ImageBuilt ==
    op = "make_image" =>
        IF \/ args.image_url # None /\ args.slack_file # None
           \/ args.slack_file # None /\ ~ValidFileObject(Val(args.slack_file))
        THEN RejectedAsInvalid
        ELSE /\ result.kind = "return"
             /\ result.value["type"] = "image"
             /\ result.value["alt_text"] = args.alt_text
             /\ ~({"image_url", "slack_file"} \subseteq DOMAIN result.value)
             /\ "slack_file" \in DOMAIN result.value
                <=> args.slack_file # None

\* an empty image_url given together with a valid file was rejected
C20_Witness ==
    /\ op = "make_image"
    /\ args.image_url = Some(<<>>)
    /\ args.slack_file # None
    /\ ValidFileObject(Val(args.slack_file))
    /\ RejectedAsInvalid

\* an image was built from a file object that holds an id and a url
C20_WitnessBuilt ==
    /\ op = "make_image"
    /\ result.kind = "return"
    /\ "slack_file" \in DOMAIN result.value
    /\ DOMAIN result.value["slack_file"] = {"id", "url"}

\* C21: send_slack_message with a file_path makes exactly one vendor call,
\* files_upload_v2(channel, file, initial_comment=message), and neither
\* chat_postMessage nor chat_postEphemeral, even when user and blocks are
\* also given; on success it returns 'File sent successfully, got
\* response: <response>'.
C21_FileUpload ==
    (/\ op = "send_slack_message"
     /\ CredentialResolved
     /\ TruthyStr(args.file_path))
    => /\ Len(Calls) = 1
       /\ Calls[1].method = "files_upload_v2"
       /\ Calls[1].kwargs = [channel |-> args.channel_id,
                             file |-> Val(args.file_path),
                             initial_comment |-> args.message]
       /\ \A i \in 1..Len(trace) :
              trace[i].method \notin {"chat_postMessage", "chat_postEphemeral"}
       /\ Calls[1].answer.kind = "return"
          => result = Return(<<Lit("File sent successfully, got response: "),
                               Repr(Calls[1].answer.value)>>)

\* a file was sent in a call that also named a user and blocks
C21_Witness ==
    /\ op = "send_slack_message"
    /\ args.file_path = Some("/tmp/report.txt")
    /\ args.user = Some("U1")
    /\ args.blocks = Some(<<[type |-> "divider"]>>)
    /\ Len(Calls) = 1
    /\ Calls[1].method = "files_upload_v2"
    /\ result.kind = "return"

\* C22: no mapping returned by make_select_menu contains both the key
\* 'options' and the key 'option_groups', whatever the arguments (empty
\* lists included).
C22_OneListInMenu ==
    (op = "make_select_menu" /\ result.kind = "return")
    => ~({"options", "option_groups"} \subseteq DOMAIN result.value)

\* the values of the options that a menu built from the arguments of the
\* last make_select_menu call offers: those of `options`, or those of the
\* options of every group of `option_groups`
SelectableValues ==
    (IF args.options = None THEN {}
     ELSE {Val(args.options)[i]["value"] :
               i \in 1..Len(Val(args.options))})
    \cup
    (IF args.option_groups = None THEN {}
     ELSE UNION {{Val(args.option_groups)[g]["options"][i]["value"] :
                      i \in 1..Len(Val(args.option_groups)[g]["options"])} :
                 g \in 1..Len(Val(args.option_groups))})

ValidApartFromInitial ==
    /\ ~(TruthySeq(args.options) /\ TruthySeq(args.option_groups))
    /\ WithinLimit(args.options, 100)
    /\ WithinLimit(args.option_groups, 100)
    /\ WithinLimit(args.action_id, 255)
    /\ \/ args.placeholder = None
       \/ /\ DOMAIN Val(args.placeholder) = {"type", "text"}
          /\ Val(args.placeholder)["type"] = "plain_text"
          /\ TextLen(Val(args.placeholder)) <= 150
    /\ args.confirm = None \/ WellFormedConfirm(Val(args.confirm))

C23_WitnessGroups ==
    /\ op = "make_select_menu"
    /\ args.initial_option = Some(Option(3))
    /\ TruthySeq(args.option_groups)
    /\ Option(3)["value"] \notin SelectableValues
    /\ result.kind = "return"

\* C24: every confirm object returned by make_confirm_object is accepted by
\* the confirm validation that make_button, make_select_menu and
\* make_date_picker use: passing the result as `confirm` is never rejected.
C24_ConfirmObjectAccepted ==
    (op = "make_confirm_object" /\ result.kind = "return")
    => /\ _validate_confirm_object(result.value, "confirm") = Ok
       /\ make_button(TextObject("plain_text", 1), None, None, None, None,
                      Some(result.value), None).kind = "return"
       /\ make_select_menu(None, None, None, None, Some(result.value),
                           DefaultFocusOnLoad, None).kind = "return"

\* the positions of the items that hold every key of `keys`
Complete(items, keys) == {i \in 1..Len(items) : keys \subseteq DOMAIN items[i]}

\* `out` lists, in the order of `items`, one entry for every item that holds
\* every key of `keys`, and each entry holds exactly those keys with the
\* item's values
FilteredList(out, items, keys) ==
    /\ Len(out) = Cardinality(Complete(items, keys))
    /\ \A i \in Complete(items, keys) :
           LET k == Cardinality({j \in Complete(items, keys) : j <= i})
           IN  /\ DOMAIN out[k] = keys
               /\ \A key \in keys : out[k][key] = items[i][key]

\* C25: get_slack_channel_information returns a JSON list that contains, in
\* the vendor's order, one entry for each channel that has all four keys id,
\* name, created and num_members, each entry holding exactly those four
\* keys with their values; channels that lack one of the four are left out
\* and no other key is output.
C25_ChannelsFiltered ==
    (/\ op = "get_slack_channel_information"
     /\ Len(Calls) = 1
     /\ Calls[1].answer.kind = "return")
    => /\ Calls[1].method = "conversations_list"
       /\ result.kind = "return"
       /\ Len(result.value) = 1
       /\ DOMAIN result.value[1] = {"json"}
       /\ FilteredList(result.value[1].json,
                       Calls[1].answer.value["channels"],
                       {"id", "name", "created", "num_members"})

\* of a channel without num_members followed by a complete one that has a
\* fifth key, only the second was output, with four keys
C25_Witness ==
    /\ op = "get_slack_channel_information"
    /\ Len(Calls) = 1
    /\ Calls[1].answer.kind = "return"
    /\ Len(Calls[1].answer.value["channels"]) = 2
    /\ "num_members" \notin DOMAIN Calls[1].answer.value["channels"][1]
    /\ "is_archived" \in DOMAIN Calls[1].answer.value["channels"][2]
    /\ result.kind = "return"
    /\ Len(result.value[1].json) = 1
    /\ result.value[1].json[1]["id"] = "C2"

C26_WitnessError ==
    /\ op = "get_slack_channel_message"
    /\ Len(Calls) = 1
    /\ Calls[1].answer.kind = "raise"
    /\ result = Return(<<Lit("Error retrieving messages: "),
                         Lit("channel_not_found")>>)

\* the credential that the environment of the current state yields: the bot
\* token when it is set and not empty, else the user token
EnvironmentCredential ==
    IF TruthyStr(env["SLACK_BOT_TOKEN"]) THEN env["SLACK_BOT_TOKEN"]
    ELSE env["SLACK_USER_TOKEN"]

\* C27: in every invocation of an operation method the credential is
\* resolved exactly once and before any vendor call, and the outcome of the
\* invocation is a function of its arguments, the credential of the
\* environment and the vendor's answers to its own calls: nothing of an
\* earlier invocation enters it.
C27_OneLoginNoState ==
    op \in Operations =>
        /\ Len(trace) >= 1
        /\ trace[1].kind = "login"
        /\ trace[1].kwargs = [slack_token |-> None]
        /\ \A i \in 2..Len(trace) : trace[i].kind = "call"
        /\ IF TruthyStr(EnvironmentCredential)
           THEN /\ trace[1].answer =
                       Return([token |-> Val(EnvironmentCredential)])
                /\ Len(trace) >= 2
           ELSE /\ trace[1].answer.kind = "raise"
                /\ result = trace[1].answer
                /\ Len(trace) = 1
        /\ Len(trace) >= 2
           => LET last == trace[Len(trace)].answer
              IN  IF last.kind = "raise"
                  THEN /\ result.kind = "return"
                       /\ Len(result.value) = 2
                       /\ result.value[2] = Lit(last.response["error"])
                  ELSE /\ result.kind = "return"
                       /\ op \in {"join_slack_channel", "leave_slack_channel",
                                  "delete_slack_message"}
                          => result = Return(<<Repr(last.value)>>)

\* delete_slack_message resolved the user token, the bot token being empty,
\* made its call after that and returned the string form of the response
C27_Witness ==
    /\ op = "delete_slack_message"
    /\ env["SLACK_BOT_TOKEN"] = Some("")
    /\ Len(trace) = 2
    /\ trace[1].answer = Return([token |-> "xoxp-user"])
    /\ trace[2].method = "chat_delete"
    /\ trace[2].kwargs = [channel |-> args.channel_id, ts |-> args.time_stamp]
    /\ result = Return(<<Repr([ok |-> TRUE, ts |-> "1.5"])>>)

\* C28: make_text_object never rejects a call because of emoji or verbatim:
\* with a valid type and a text of 1..3000 characters the call succeeds
\* whatever emoji and verbatim are, an emoji given with 'mrkdwn' and a
\* verbatim given with 'plain_text' are left out of the result, and the
\* field that matches the type is kept when it is given.
C28_MismatchLeftOut ==
    (/\ op = "make_text_object"
     /\ args.text_type \in {"plain_text", "mrkdwn"}
     /\ Len(args.text) >= 1
     /\ Len(args.text) <= 3000)
    => /\ result.kind = "return"
       /\ "emoji" \in DOMAIN result.value
          <=> (args.text_type = "plain_text" /\ args.emoji # None)
       /\ "verbatim" \in DOMAIN result.value
          <=> (args.text_type = "mrkdwn" /\ args.verbatim # None)
       /\ "emoji" \in DOMAIN result.value
          => result.value["emoji"] = Val(args.emoji)
       /\ "verbatim" \in DOMAIN result.value
          => result.value["verbatim"] = Val(args.verbatim)

\* a plain text of 3000 characters given with emoji and verbatim was
\* returned without the verbatim
C28_Witness ==
    /\ op = "make_text_object"
    /\ args.text_type = "plain_text"
    /\ Len(args.text) = 3000
    /\ args.emoji = Some(FALSE)
    /\ args.verbatim = Some(TRUE)
    /\ result.kind = "return"
    /\ DOMAIN result.value = {"type", "text", "emoji"}
    /\ result.value["emoji"] = FALSE

\* a text of the form YYYY-MM-DD: four digits, a dash, two digits, a dash,
\* two digits, and nothing else
DateForm(text) ==
    /\ Len(text) = 10
    /\ \A i \in {1, 2, 3, 4, 6, 7, 9, 10} : text[i] \in Digits
    /\ text[5] = "-"
    /\ text[8] = "-"

\* C29: make_date_picker rejects every initial_date that is not of the form
\* YYYY-MM-DD, an action_id of more than 255 characters, a placeholder that
\* is not a plain_text object or is longer than 150 characters, and an
\* invalid confirm object; every date picker it returns has 'type'
\* 'datepicker', always contains 'focus_on_load', and contains
\* 'initial_date' only with a value of that form.
C29_DatePickerBuilt ==
    op = "make_date_picker" =>
        /\ (args.initial_date # None /\ ~DateForm(Val(args.initial_date)))
           => RejectedAsInvalid
        /\ (args.action_id # None /\ Len(Val(args.action_id)) > 255)
           => RejectedAsInvalid
        /\ (/\ args.placeholder # None
            /\ \/ ~PlainTextObject(Val(args.placeholder))
               \/ TextLen(Val(args.placeholder)) > 150)
           => RejectedAsInvalid
        /\ (args.confirm # None /\ ~WellFormedConfirm(Val(args.confirm)))
           => RejectedAsInvalid
        /\ result.kind = "return"
           => /\ result.value["type"] = "datepicker"
              /\ "focus_on_load" \in DOMAIN result.value
              /\ result.value["focus_on_load"] = args.focus_on_load
              /\ "initial_date" \in DOMAIN result.value
                 => DateForm(result.value["initial_date"])

\* the date of the repository's test was accepted and returned
C29_TestDateAccepted ==
    /\ op = "make_date_picker"
    /\ args.initial_date = Some(TestDate)
    /\ result.kind = "return"
    /\ result.value["initial_date"] = TestDate

\* a valid text object: a mapping with a 'type' that is 'plain_text' or
\* 'mrkdwn' and a 'text' key
ValidTextObject(text_obj) ==
    /\ IsDict(text_obj)
    /\ {"type", "text"} \subseteq DOMAIN text_obj
    /\ text_obj["type"] \in {"plain_text", "mrkdwn"}

\* C30: make_option rejects a text that is not a valid text object, a text
\* of more than 75 characters, a value of more than 150, a description
\* (given and not empty) that is not a valid text object or is longer than
\* 75, and a url of more than 3000; otherwise it returns 'text' and 'value'
\* unchanged, plus 'description' and 'url' exactly when they are given and
\* not empty.
C30_OptionBuilt ==
    op = "make_option" =>
        IF \/ ~ValidTextObject(args.text)
           \/ TextLen(args.text) > 75
           \/ Len(args.value) > 150
           \/ /\ TruthyDict(args.description)
              /\ \/ ~ValidTextObject(Val(args.description))
                 \/ TextLen(Val(args.description)) > 75
           \/ args.url # None /\ Len(Val(args.url)) > 3000
        THEN RejectedAsInvalid
        ELSE /\ result.kind = "return"
             /\ DOMAIN result.value \subseteq
                    {"text", "value", "description", "url"}
             /\ result.value["text"] = args.text
             /\ result.value["value"] = args.value
             /\ IF TruthyDict(args.description)
                THEN /\ "description" \in DOMAIN result.value
                     /\ result.value["description"] = Val(args.description)
                ELSE "description" \notin DOMAIN result.value
             /\ IF TruthySeq(args.url)
                THEN /\ "url" \in DOMAIN result.value
                     /\ result.value["url"] = Val(args.url)
                ELSE "url" \notin DOMAIN result.value

\* an option was built from a text of 75 characters, a value of 150, an
\* empty description and a url of 3000: the description was left out
C30_Witness ==
    /\ op = "make_option"
    /\ TextLen(args.text) = 75
    /\ Len(args.value) = 150
    /\ args.description = Some(EmptyDict)
    /\ args.url # None
    /\ result.kind = "return"
    /\ DOMAIN result.value = {"text", "value", "url"}
    /\ Len(result.value["url"]) = 3000

\* an option with a description was built
C30_WitnessDescribed ==
    /\ op = "make_option"
    /\ result.kind = "return"
    /\ "description" \in DOMAIN result.value
    /\ TextLen(result.value["description"]) = 75
=============================================================================
